---- MODULE Spec2Model ----
(***************************************************************************)
(* A model of the salesforce-mcp relay: the CSV contact import pipeline    *)
(* (src/services/csvImport.js), the in-memory rate limiter and the         *)
(* authentication gate (src/middleware/auth.js), the HTTP handlers, the    *)
(* CSV report pipeline (src/services/csvReport.js) and the shared CRM      *)
(* session (src/services/salesforce.js).                                   *)
(*                                                                         *)
(* JavaScript strings are TLA+ strings, objects are functions from key     *)
(* names to values (a key that is absent is outside the DOMAIN), arrays    *)
(* are sequences.  The CRM is the environment: every call to it either     *)
(* raises or answers, and the answers are chosen nondeterministically.     *)
(***************************************************************************)
EXTENDS Integers, Sequences, FiniteSets, TLC

VARIABLES
    pc,                 \* position of importContactsFromCSV
    fileExists,         \* the uploaded file is on disk
    contacts,           \* the parsed rows
    idx,                \* index of the row the for-loop is at (1-based)
    contactRecord,      \* the mapped record of the current row
    successfulRecords,  \* csvImport.js:17
    errors,             \* csvImport.js:16
    returned,           \* the aggregate result, once returned
    thrown,             \* the message of the exception that left the import
    calls,              \* every call issued to the CRM adapter, in order
    sfAccounts,         \* the Account records the CRM holds
    sfNextId,           \* the CRM's next fresh record id
    now,                \* Date.now(), in ms since the process started
    requestCounts,      \* auth.js:24, what requestCounts[key] evaluates to
    lastResponse,       \* per caller key, the answer to its latest request
    reqWindow,          \* per caller key, its current window and requests in it
    served,             \* number of requests the limiter has seen
    ticks,              \* number of times the clock has advanced
    mapStage,           \* position of the mapping of one row
    mapRow,             \* the CSV row being mapped
    mapRecord,          \* the record made of mapRow
    apiReq,             \* the HTTP request being served
    apiStage,           \* what runs next for it
    anthropicKey,       \* req.anthropicKey, auth.js:15
    apiStep,            \* the call of the handler that is in flight
    apiCalls,           \* the calls the handler has started for the request
    apiResponses,       \* the responses sent for the request
    apiBefore,          \* requestCounts as the request arrived
    apiTrace,           \* the middleware and handler that have run for it
    reports,            \* per report request, how far its handler is, what it holds,
                        \* whether its query found records and what went to the caller
    disk,               \* the files of os.tmpdir()
    crashed,            \* an uncaught exception has ended the process
    connection,         \* salesforce.js:4, the shared connection
    sessPc,             \* per caller of the adapter, where it is
    sessConn,           \* per caller, the connection it holds (conn)
    sessOp,             \* per caller, the operation it is about to run
    nextConn,           \* the number of the next connection object
    logins,             \* the logins started, with the shared connection at that time
    established,        \* the logins that succeeded, with the connection each replaced
    used                \* the operations run, with the connection each ran on

importVars == <<pc, fileExists, contacts, idx, contactRecord, successfulRecords,
                errors, returned, thrown, calls, sfAccounts, sfNextId>>

rateVars == <<now, requestCounts, lastResponse, reqWindow, served, ticks>>

mapVars == <<mapStage, mapRow, mapRecord>>

apiVars == <<apiReq, apiStage, anthropicKey, apiStep, apiCalls, apiResponses, apiBefore,
            apiTrace>>

reportVars == <<reports, disk, crashed>>

sessVars == <<connection, sessPc, sessConn, sessOp, nextConn, logins, established, used>>

vars == <<importVars, rateVars, mapVars, apiVars, reportVars, sessVars>>

----------------------------------------------------------------------------
(* Bounds of the model *)

MaxRows == 2

MaxRequests == 7

MaxTicks == 2

MaxRecords == 2

----------------------------------------------------------------------------
(* JavaScript helpers *)

NULL == "<null>"

\* a key holds a truthy (non-empty string) value
Truthy(obj, k) == k \in DOMAIN obj /\ obj[k] # ""

\* String.prototype.endsWith
EndsWith(s, suffix) ==
    /\ Len(s) >= Len(suffix)
    /\ SubSeq(s, Len(s) - Len(suffix) + 1, Len(s)) = suffix

RECURSIVE TrimStart(_)
TrimStart(s) ==
    IF Len(s) > 0 /\ SubSeq(s, 1, 1) = " "
    THEN TrimStart(SubSeq(s, 2, Len(s)))
    ELSE s

RECURSIVE TrimEnd(_)
TrimEnd(s) ==
    IF Len(s) > 0 /\ SubSeq(s, Len(s), Len(s)) = " "
    THEN TrimEnd(SubSeq(s, 1, Len(s) - 1))
    ELSE s

\* String.prototype.trim
Trim(s) == TrimEnd(TrimStart(s))

\* Array.prototype.join
RECURSIVE Join(_, _)
Join(seq, sep) ==
    IF Len(seq) = 0 THEN ""
    ELSE IF Len(seq) = 1 THEN seq[1]
    ELSE seq[1] \o sep \o Join(Tail(seq), sep)

\* obj[k] = v
SetKey(obj, k, v) == [x \in DOMAIN obj \cup {k} |-> IF x = k THEN v ELSE obj[x]]

\* delete obj[k]
DeleteKey(obj, k) == [x \in DOMAIN obj \ {k} |-> obj[x]]

----------------------------------------------------------------------------
(* mapContactFields, csvImport.js:93-136 *)

standardFields ==
    {"FirstName", "Email", "Phone", "MobilePhone", "Title", "Department", "Description"}

mailingFields ==
    {"MailingStreet", "MailingCity", "MailingState", "MailingPostalCode", "MailingCountry"}

\* the same mapping with LastName: csvContact.LastName || ''
mapContactFields_noPlaceholder(csvContact) ==
    LET copied == {f \in standardFields \cup mailingFields \cup {"AccountName"} :
                        Truthy(csvContact, f)}
        custom == {k \in DOMAIN csvContact : EndsWith(k, "__c")}
    IN  [k \in {"LastName"} \cup copied \cup custom |->
            IF k = "LastName"
            THEN IF Truthy(csvContact, "LastName") THEN csvContact["LastName"] ELSE ""
            ELSE csvContact[k]]

mapContactFields(csvContact) ==
    LET copied == {f \in standardFields \cup mailingFields \cup {"AccountName"} :
                        Truthy(csvContact, f)}
        custom == {k \in DOMAIN csvContact : EndsWith(k, "__c")}
    IN  [k \in {"LastName"} \cup copied \cup custom |->
            IF k = "LastName"
            THEN IF Truthy(csvContact, "LastName") THEN csvContact["LastName"] ELSE "Unknown"
            ELSE csvContact[k]]

----------------------------------------------------------------------------
(* Inputs and environment of the import *)

\* the columns an uploaded file can have, and what a cell of each column can hold
RowKeys == {"LastName", "FirstName", "AccountName"}

RowValues(k) ==
    CASE k = "LastName"    -> {"", "Lee"}
      [] k = "FirstName"   -> {"Ann"}
      [] k = "AccountName" -> {"", "Acme"}

\* the rows csv-parser makes of the lines under a header: one key per column
CsvRows(header) ==
    {r \in [header -> UNION {RowValues(k) : k \in RowKeys}] :
        \A k \in header : r[k] \in RowValues(k)}

\* the parsed files: any header, up to MaxRows rows
CsvFiles ==
    UNION { [1..n -> CsvRows(header)] : n \in 0..MaxRows, header \in SUBSET RowKeys }

\* the Accounts the CRM holds before the import
InitialAccounts ==
    { <<>>,
      <<[Id |-> "1", Name |-> "Acme"], [Id |-> "2", Name |-> "Acme"]>> }

\* the errors of a create call that reports success = false
CreateErrors == <<"DUPLICATES_DETECTED", "FIELD_INTEGRITY_EXCEPTION">>

\* the message of an exception raised by the CRM adapter
TransportError == "socket hang up"

\* the message of an exception raised by the read stream or the parser
ParseError == "EIO: i/o error, read"

----------------------------------------------------------------------------
(* The CRM adapter, salesforce.js *)

RECURSIVE EscapeQuotes(_)
\* accountName.replace(/'/g, "\\'"), csvImport.js:146
EscapeQuotes(s) ==
    IF Len(s) = 0 THEN ""
    ELSE (IF SubSeq(s, 1, 1) = "'" THEN "\\'" ELSE SubSeq(s, 1, 1))
            \o EscapeQuotes(SubSeq(s, 2, Len(s)))

\* the lookup query of findOrCreateAccount, csvImport.js:146
AccountQuery(accountName) ==
    "SELECT Id FROM Account WHERE Name = '" \o EscapeQuotes(accountName) \o "'"

\* the lookup does not see the Accounts the CRM holds
QueryRecords_blind(soql) == <<>>

\* the records the CRM answers the lookup with: the Accounts of that exact Name
QueryRecords(soql) ==
    SelectSeq(sfAccounts, LAMBDA a : AccountQuery(a.Name) = soql)

\* a call handed to the adapter for the row at hand; outcome is "pending" while it is
\* in flight, then "ok" (with the records or the id answered), "failed" (the answer
\* says success = false) or "raised"
Call(op, object, arg) ==
    [op |-> op, object |-> object, arg |-> arg, row |-> idx,
     outcome |-> "pending", result |-> NULL]

Issue(call) == Append(calls, call)

\* the call in flight gets its outcome
Settle(cs, outcome, result) ==
    [cs EXCEPT ![Len(cs)].outcome = outcome, ![Len(cs)].result = result]

\* querySalesforce(soql), salesforce.js:42-52
querySalesforce(soql) == Issue(Call("query", "Account", soql))

\* createRecord(objectName, record), salesforce.js:57-67
createRecord(objectName, record) == Issue(Call("create", objectName, record))

----------------------------------------------------------------------------
(* JavaScript numbers: an integer, NaN, or the value undefined *)

Num(n) == [t |-> "number", v |-> n]

NaN == [t |-> "NaN"]

Undefined == [t |-> "undefined"]

IsNum(a) == a.t = "number"

\* a < b and a >= b: false as soon as one side is NaN or undefined
JsLt(a, b) == IsNum(a) /\ IsNum(b) /\ a.v < b.v

JsGe(a, b) == IsNum(a) /\ IsNum(b) /\ a.v >= b.v

\* a++, a - b
JsInc(a) == IF IsNum(a) THEN Num(a.v + 1) ELSE NaN

JsSub(a, b) == IF IsNum(a) /\ IsNum(b) THEN Num(a.v - b.v) ELSE NaN

\* Math.ceil(a / d) for a positive integer d
JsCeilDiv(a, d) == IF IsNum(a) THEN Num((a.v + d - 1) \div d) ELSE NaN

----------------------------------------------------------------------------
(* rateLimiter, auth.js:24-63 *)

RATE_LIMIT_WINDOW_MS == 60 * 1000

RATE_LIMIT_MAX_REQUESTS == 5

\* the header of a request that carries no x-api-key
UNDEFINED == "<undefined>"

\* the requests that reach the limiter (index.js:49-52 puts authenticateAnthropicKey
\* in front of it, so each carries an x-api-key header) and their addresses
ApiKeyHeaders == {"sk-ant-a", "constructor", "__proto__"}

Ips == {"10.0.0.1"}

Requests == [apiKey : ApiKeyHeaders, ip : Ips]

\* auth.js:29
CallerKey(req) ==
    IF req.apiKey # UNDEFINED /\ req.apiKey # "" THEN req.apiKey ELSE req.ip

CallerKeys == {CallerKey(req) : req \in Requests}

\* requestCounts is the object literal {} (auth.js:24): a key it does not own is
\* looked up on Object.prototype.  requestCounts["constructor"] is the function
\* Object and requestCounts["__proto__"] is Object.prototype itself, two objects
\* with neither a count nor a resetTime property
ObjectPrototype ==
    [k \in {"constructor", "__proto__"} |-> [count |-> Undefined, resetTime |-> Undefined]]

\* auth.js:55, requestCounts[apiKey].count++.  On the key "__proto__" the property is
\* written to Object.prototype, and the function Object, which inherits from it,
\* reads that count for as long as it has no count of its own
IncrementCount(obj, apiKey, counted) ==
    LET own == SetKey(obj, apiKey, counted)
    IN  IF apiKey = "__proto__"
        THEN [k \in DOMAIN own |->
                IF k = "constructor" /\ own[k].count = Undefined
                THEN [own[k] EXCEPT !.count = counted.count]
                ELSE own[k]]
        ELSE own

NoResponse == [status |-> 0]

NoWindow == [start |-> 0, n |-> 0]

\* auth.js:33-43: the entry of the key after "initialize or clean up"
CleanedEntry(apiKey) ==
    LET fresh == [count |-> Num(0), resetTime |-> Num(now + RATE_LIMIT_WINDOW_MS)]
    IN  IF apiKey \notin DOMAIN requestCounts THEN fresh
        ELSE IF JsLt(requestCounts[apiKey].resetTime, Num(now)) THEN fresh
        ELSE requestCounts[apiKey]

\* auth.js:46
LimitExceeded(entry) == JsGe(entry.count, Num(RATE_LIMIT_MAX_REQUESTS))

\* the window a request of the key falls in, and its rank in that window: a window
\* opens with the key's first request and with its first request after the previous
\* window's RATE_LIMIT_WINDOW_MS have passed
WindowOf(apiKey) ==
    LET w == reqWindow[apiKey]
    IN  IF w.n = 0 \/ now > w.start + RATE_LIMIT_WINDOW_MS
        THEN [start |-> now, n |-> 1]
        ELSE [start |-> w.start, n |-> w.n + 1]

\* the resetTime recorded for the key when the request arrives
RecordedReset(apiKey) ==
    IF apiKey \in DOMAIN requestCounts THEN requestCounts[apiKey].resetTime ELSE Undefined

\* what the previous answer to the key was
Previous(apiKey) ==
    LET r == lastResponse[apiKey]
    IN  IF r.status = 0 THEN NoResponse
        ELSE [status |-> r.status, retryAfter |-> r.retryAfter, at |-> r.at]

\* auth.js:28-63
rateLimiter(req) ==
    LET apiKey == CallerKey(req)
        entry == CleanedEntry(apiKey)
    IN  /\ served < MaxRequests
        /\ served' = served + 1
        /\ reqWindow' = [reqWindow EXCEPT ![apiKey] = WindowOf(apiKey)]
        /\ IF LimitExceeded(entry)
           THEN /\ requestCounts' = SetKey(requestCounts, apiKey, entry)
                /\ lastResponse' = [lastResponse EXCEPT ![apiKey] =
                        [status     |-> 429,
                         retryAfter |-> JsCeilDiv(JsSub(entry.resetTime, Num(now)), 1000),
                         remaining  |-> Undefined,
                         at         |-> now,
                         nth        |-> WindowOf(apiKey).n,
                         resetBefore |-> RecordedReset(apiKey),
                         prev       |-> Previous(apiKey)]]
           ELSE LET counted == [entry EXCEPT !.count = JsInc(entry.count)]
                IN  /\ requestCounts' = IncrementCount(requestCounts, apiKey, counted)
                    /\ lastResponse' = [lastResponse EXCEPT ![apiKey] =
                            [status     |-> 200,
                             retryAfter |-> Undefined,
                             remaining  |-> JsSub(Num(RATE_LIMIT_MAX_REQUESTS), counted.count),
                             at         |-> now,
                             nth        |-> WindowOf(apiKey).n,
                             resetBefore |-> RecordedReset(apiKey),
                             prev       |-> Previous(apiKey)]]
        /\ UNCHANGED <<now, ticks>>

\* a request reaches the limiter
RateLimit ==
    /\ \E req \in Requests : rateLimiter(req)
    /\ UNCHANGED <<importVars, mapVars, apiVars, reportVars, sessVars>>

\* the clock advances between two requests
ClockSteps == {1, 1000, 59000}

Tick ==
    /\ ticks < MaxTicks
    /\ ticks' = ticks + 1
    /\ \E d \in ClockSteps : now' = now + d
    /\ UNCHANGED <<requestCounts, lastResponse, reqWindow, served>>
    /\ UNCHANGED <<importVars, mapVars, apiVars, reportVars, sessVars>>

RateNext == RateLimit \/ Tick

----------------------------------------------------------------------------
(* The HTTP surface: the mounts of index.js:48-64, authenticateAnthropicKey
   (auth.js:6-18) and the handlers of routes/.  One request at a time goes through
   the middleware in front of its route and then through its handler; every
   awaited call of a handler either answers or raises. *)

StartsWith(s, prefix) ==
    /\ Len(s) >= Len(prefix)
    /\ SubSeq(s, 1, Len(prefix)) = prefix

\* app.use(prefix, ...) runs for the prefix itself and for every path under it
Mounted(prefix, path) == path = prefix \/ StartsWith(path, prefix \o "/")

\* index.js:49-52
GatedPrefixes == {"/api/claude", "/api/integrated", "/api/csv/analyze", "/api/csv/report"}

\* only the first mount of index.js:49-52
Gated_narrow(path) == Mounted("/api/claude", path)

\* the path has authenticateAnthropicKey and rateLimiter in front of it
Gated(path) == \E prefix \in GatedPrefixes : Mounted(prefix, path)

\* the routes of routes/index.js:120-123, one path per handler
Routes ==
    {"/api/salesforce/query",
     "/api/salesforce/create/Contact",
     "/api/salesforce/update/Contact/003",
     "/api/salesforce/delete/Contact/003",
     "/api/salesforce/describe/Contact",
     "/api/claude/generate",
     "/api/claude/process-salesforce",
     "/api/integrated/query-analyze",
     "/api/integrated/generate-soql",
     "/api/integrated/enrich-data/Contact/003",
     "/api/csv/import/contacts",
     "/api/csv/report/contacts",
     "/api/csv/analyze/contacts"}

\* one validation of a handler: at least one of the fields is there, or 400 with error
Check(fields, error) == [anyOf |-> fields, error |-> error]

\* what a handler reads of its request (a field is in the body when its value is
\* truthy; "record" and "fields" stand for a non-empty body and a non-empty array,
\* "file" for req.file), whether multer runs in front of it, and its validations in
\* the order of the code.  A route only matches with its path parameters filled in,
\* so the checks of objectName and id never fail.
Handler(path) ==
    CASE path = "/api/salesforce/query" ->
            [fields |-> {"soql"}, upload |-> FALSE,
             checks |-> <<Check({"soql"}, "SOQL query is required")>>]
      [] path = "/api/salesforce/create/Contact" ->
            [fields |-> {"record"}, upload |-> FALSE,
             checks |-> <<Check({"record"}, "Record data is required")>>]
      [] path = "/api/salesforce/update/Contact/003" ->
            [fields |-> {"record"}, upload |-> FALSE,
             checks |-> <<Check({"record"}, "Record data is required")>>]
      [] path = "/api/salesforce/delete/Contact/003" ->
            [fields |-> {}, upload |-> FALSE, checks |-> <<>>]
      [] path = "/api/salesforce/describe/Contact" ->
            [fields |-> {}, upload |-> FALSE, checks |-> <<>>]
      [] path = "/api/claude/generate" ->
            [fields |-> {"prompt"}, upload |-> FALSE,
             checks |-> <<Check({"prompt"}, "Prompt is required")>>]
      [] path = "/api/claude/process-salesforce" ->
            [fields |-> {"sfData", "task"}, upload |-> FALSE,
             checks |-> <<Check({"sfData"}, "Salesforce data is required"),
                          Check({"task"}, "Task description is required")>>]
      [] path = "/api/integrated/query-analyze" ->
            [fields |-> {"soql", "task"}, upload |-> FALSE,
             checks |-> <<Check({"soql"}, "SOQL query is required"),
                          Check({"task"}, "Analysis task is required")>>]
      [] path = "/api/integrated/generate-soql" ->
            [fields |-> {"prompt", "objectName"}, upload |-> FALSE,
             checks |-> <<Check({"prompt"}, "Prompt is required"),
                          Check({"objectName"}, "Object name is required")>>]
      [] path = "/api/integrated/enrich-data/Contact/003" ->
            [fields |-> {"fields", "enrichmentTask"}, upload |-> FALSE,
             checks |-> <<Check({"fields"}, "Fields to enrich are required"),
                          Check({"enrichmentTask"},
                                "Enrichment task description is required")>>]
      [] path = "/api/csv/import/contacts" ->
            [fields |-> {"file"}, upload |-> TRUE,
             checks |-> <<Check({"file"}, "No CSV file uploaded")>>]
      [] path = "/api/csv/report/contacts" ->
            [fields |-> {"soql", "description"}, upload |-> FALSE,
             checks |-> <<Check({"soql", "description"},
                                "Either SOQL query or report description is required")>>]
      [] path = "/api/csv/analyze/contacts" ->
            [fields |-> {"file", "task"}, upload |-> TRUE,
             checks |-> <<Check({"file"}, "No CSV file uploaded"),
                          Check({"task"}, "Analysis task is required")>>]

\* an awaited (or throwing) call of a handler: kind "crm" is an operation of
\* services/salesforce.js, "model" is generateClaudeResponse, "pipeline" is
\* importContactsFromCSV, "local" is a call on the file system or JSON.parse;
\* notFound is the error of the 404 the handler answers when the call finds no record
Step(kind, op, notFound) == [kind |-> kind, op |-> op, notFound |-> notFound]

\* generateCsvReport as the report route sees it, csvReport.js:21-51 and 255-262
ReportSteps ==
    <<Step("crm", "querySalesforce", "No records found for the specified query"),
      Step("local", "writeCsvFile", NULL)>>

\* the calls of a handler that passed its validations, in the order of the code
Steps(path, body) ==
    CASE path = "/api/salesforce/query" -> <<Step("crm", "querySalesforce", NULL)>>
      [] path = "/api/salesforce/create/Contact" -> <<Step("crm", "createRecord", NULL)>>
      [] path = "/api/salesforce/update/Contact/003" -> <<Step("crm", "updateRecord", NULL)>>
      [] path = "/api/salesforce/delete/Contact/003" -> <<Step("crm", "deleteRecord", NULL)>>
      [] path = "/api/salesforce/describe/Contact" -> <<Step("crm", "describeObject", NULL)>>
      [] path = "/api/claude/generate" -> <<Step("model", "generateClaudeResponse", NULL)>>
      [] path = "/api/claude/process-salesforce" ->
            <<Step("model", "processSalesforceData", NULL)>>
      [] path = "/api/integrated/query-analyze" ->
            <<Step("crm", "querySalesforce", NULL),
              Step("model", "processSalesforceData", NULL)>>
      [] path = "/api/integrated/generate-soql" ->
            <<Step("crm", "describeObject", NULL),
              Step("model", "generateClaudeResponse", NULL)>>
      [] path = "/api/integrated/enrich-data/Contact/003" ->
            <<Step("crm", "querySalesforce", "Contact record with ID 003 not found"),
              Step("model", "generateClaudeResponse", NULL),
              Step("local", "JSON.parse", NULL),
              Step("crm", "updateRecord", NULL)>>
      [] path = "/api/csv/import/contacts" ->
            <<Step("pipeline", "importContactsFromCSV", NULL)>>
      [] path = "/api/csv/report/contacts" ->
            IF "soql" \in body
            THEN ReportSteps
            ELSE <<Step("crm", "describeObject", NULL),
                   Step("model", "generateClaudeResponse", NULL)>> \o ReportSteps
      [] path = "/api/csv/analyze/contacts" ->
            <<Step("local", "readFileSync", NULL),
              Step("model", "generateClaudeResponse", NULL),
              Step("local", "unlinkSync", NULL)>>

\* the x-api-key headers of the requests: none, an empty one, a key
ApiHeaders == {UNDEFINED, "", "sk-ant-a"}

\* process.env.ANTHROPIC_API_KEY, required at index.js:23-35
SERVER_KEY == "sk-ant-server"

\* const apiKey = clientApiKey || process.env.ANTHROPIC_API_KEY, anthropic.js:27
ModelCredential(clientApiKey) ==
    IF clientApiKey \notin {UNDEFINED, NULL, ""} THEN clientApiKey ELSE SERVER_KEY

\* the messages of the exceptions the awaited calls raise
ErrorMessages == {TransportError, "Request failed with status code 529"}

NoRequest == [path |-> NULL]

\* res.status(status).json({ error })
Respond(status, error) == Append(apiResponses, [status |-> status, error |-> error])

\* the first validation the body fails, 0 when it passes them all
FirstMissing(checks, body) ==
    LET failing == {i \in 1..Len(checks) : checks[i].anyOf \cap body = {}}
    IN  IF failing = {} THEN 0
        ELSE CHOOSE i \in failing : \A j \in failing : i <= j

\* the call a handler starts: a model call carries the key the handler passes on
CallOf(step) ==
    [kind |-> step.kind, op |-> step.op,
     credential |-> IF step.kind = "model" THEN ModelCredential(anthropicKey) ELSE NULL,
     outcome |-> "pending", message |-> NULL]

\* what runs once the gate of the route is passed
AfterGate(path) == IF Handler(path).upload THEN "upload" ELSE "handler"

\* a request arrives
ApiArrive ==
    /\ apiStage \in {"idle", "done"}
    /\ \E path \in Routes : \E apiKey \in ApiHeaders :
       \E body \in SUBSET Handler(path).fields :
          /\ apiReq' = [path |-> path, apiKey |-> apiKey, ip |-> "10.0.0.1", body |-> body]
          /\ apiStage' = IF Gated(path) THEN "auth" ELSE AfterGate(path)
    /\ anthropicKey' = UNDEFINED
    /\ apiStep' = 0
    /\ apiCalls' = <<>>
    /\ apiResponses' = <<>>
    /\ apiBefore' = requestCounts
    /\ apiTrace' = <<>>
    /\ UNCHANGED <<importVars, rateVars, mapVars, reportVars, sessVars>>

\* auth.js:6-18
authenticateAnthropicKey ==
    /\ apiStage = "auth"
    /\ apiTrace' = Append(apiTrace, "authenticateAnthropicKey")
    /\ IF apiReq.apiKey = UNDEFINED \/ apiReq.apiKey = ""
       THEN /\ apiResponses' = Respond(401, "Authentication required. Please provide your Anthropic API key in the x-api-key header.")
            /\ apiStage' = "done"
            /\ UNCHANGED anthropicKey
       ELSE /\ anthropicKey' = apiReq.apiKey
            /\ apiStage' = "limit"
            /\ UNCHANGED apiResponses
    /\ UNCHANGED <<apiReq, apiStep, apiCalls, apiBefore>>
    /\ UNCHANGED <<importVars, rateVars, mapVars, reportVars, sessVars>>

\* rateLimiter as mounted at index.js:49-52: it answers 429 or calls next()
ApiRateLimit ==
    /\ apiStage = "limit"
    /\ apiTrace' = Append(apiTrace, "rateLimiter")
    /\ LET req == [apiKey |-> apiReq.apiKey, ip |-> apiReq.ip]
       IN  /\ rateLimiter(req)
           /\ IF lastResponse'[CallerKey(req)].status = 429
              THEN /\ apiResponses' = Respond(429, "Rate limit exceeded")
                   /\ apiStage' = "done"
              ELSE /\ apiStage' = AfterGate(apiReq.path)
                   /\ UNCHANGED apiResponses
    /\ UNCHANGED <<apiReq, anthropicKey, apiStep, apiCalls, apiBefore>>
    /\ UNCHANGED <<importVars, mapVars, reportVars, sessVars>>

\* upload.single('file'), csvReport.js:195-208: the file is stored, or there is none,
\* or fileFilter refuses it and the error handler of index.js:58-64 answers
UploadFile ==
    /\ apiStage = "upload"
    /\ apiTrace' = Append(apiTrace, "upload")
    /\ \/ /\ apiStage' = "handler"
          /\ UNCHANGED apiResponses
       \/ /\ "file" \in apiReq.body
          /\ \E message \in {"Only CSV files are allowed", "Something went wrong"} :
                apiResponses' = Append(apiResponses,
                    [status |-> 500, error |-> "Internal Server Error",
                     message |-> message])
          /\ apiStage' = "done"
    /\ UNCHANGED <<apiReq, anthropicKey, apiStep, apiCalls, apiBefore>>
    /\ UNCHANGED <<importVars, rateVars, mapVars, reportVars, sessVars>>

\* the head of every handler: the validations, then the first call
HandleRequest ==
    /\ apiStage = "handler"
    /\ apiTrace' = Append(apiTrace, "handler")
    /\ LET checks == Handler(apiReq.path).checks
           missing == FirstMissing(checks, apiReq.body)
           steps == Steps(apiReq.path, apiReq.body)
       IN  IF missing # 0
           THEN /\ apiResponses' = Respond(400, checks[missing].error)
                /\ apiStage' = "done"
                /\ UNCHANGED <<apiCalls, apiStep>>
           ELSE /\ apiCalls' = <<CallOf(steps[1])>>
                /\ apiStep' = 1
                /\ apiStage' = "await"
                /\ UNCHANGED apiResponses
    /\ UNCHANGED <<apiReq, anthropicKey, apiBefore>>
    /\ UNCHANGED <<importVars, rateVars, mapVars, reportVars, sessVars>>

\* the call in flight gets its outcome
ApiSettle(outcome, message) ==
    [apiCalls EXCEPT ![Len(apiCalls)].outcome = outcome,
                     ![Len(apiCalls)].message = message]

\* the awaited call answers: the handler answers 404 when a lookup finds nothing,
\* goes on with its next call, or answers with the result (res.json, or the piped
\* file of csvReport.js:265-270)
StepAnswers ==
    /\ apiStage = "await"
    /\ LET steps == Steps(apiReq.path, apiReq.body)
           step == steps[apiStep]
       IN  \/ /\ step.notFound # NULL
              /\ apiCalls' = ApiSettle("empty", NULL)
              /\ apiResponses' = Respond(404, step.notFound)
              /\ apiStage' = "done"
              /\ UNCHANGED apiStep
           \/ /\ apiStep < Len(steps)
              /\ apiCalls' = Append(ApiSettle("ok", NULL), CallOf(steps[apiStep + 1]))
              /\ apiStep' = apiStep + 1
              /\ UNCHANGED <<apiStage, apiResponses>>
           \/ /\ apiStep = Len(steps)
              /\ apiCalls' = ApiSettle("ok", NULL)
              /\ apiResponses' = Respond(200, NULL)
              /\ apiStage' = "done"
              /\ UNCHANGED apiStep
    /\ UNCHANGED <<apiReq, anthropicKey, apiBefore, apiTrace>>
    /\ UNCHANGED <<importVars, rateVars, mapVars, reportVars, sessVars>>

\* the exception of the awaited call is answered 200 with an empty body
StepRaises_swallowed ==
    /\ apiStage = "await"
    /\ \E message \in ErrorMessages :
          /\ apiCalls' = ApiSettle("raised", message)
          /\ apiResponses' = Respond(200, NULL)
    /\ apiStage' = "done"
    /\ UNCHANGED <<apiReq, anthropicKey, apiStep, apiBefore, apiTrace>>
    /\ UNCHANGED <<importVars, rateVars, mapVars, reportVars, sessVars>>

\* the awaited call raises: the catch of the handler answers 500 with error.message
StepRaises ==
    /\ apiStage = "await"
    /\ \E message \in ErrorMessages :
          /\ apiCalls' = ApiSettle("raised", message)
          /\ apiResponses' = Respond(500, message)
    /\ apiStage' = "done"
    /\ UNCHANGED <<apiReq, anthropicKey, apiStep, apiBefore, apiTrace>>
    /\ UNCHANGED <<importVars, rateVars, mapVars, reportVars, sessVars>>

ApiNext ==
    \/ ApiArrive
    \/ authenticateAnthropicKey
    \/ ApiRateLimit
    \/ UploadFile
    \/ HandleRequest
    \/ StepAnswers
    \/ StepRaises

----------------------------------------------------------------------------
(* The report pipeline: generateCsvReport and writeCsvFile (csvReport.js:16-89) under
   the handler of POST /report/contacts (csvReport.js:230-280).  The files of
   os.tmpdir() are the function disk; a file name outside its DOMAIN is not there. *)

\* the requests that can be in progress together
ReportIds == {"r1", "r2"}

\* req.body.reportName
ReportNames == {UNDEFINED, "Contacts Report"}

\* req.body.soql, when the caller sends one
CallerSoql == "SELECT Id, Email FROM Contact"

\* the query generateReportQuery gets from the model, csvReport.js:146
GeneratedSoql == "SELECT Id FROM Contact"

\* the keys of the records a query answers with: jsforce adds the metadata key
\* attributes, and a field that is null in one record can be absent from it
RecordShapes == {{"attributes", "Id"}, {"attributes", "Id", "Email"}}

RecordValue(k) ==
    CASE k = "attributes" -> "[object Object]"
      [] k = "Id" -> "003"
      [] k = "Email" -> "ann@acme.io"

ReportRecords == {[k \in shape |-> RecordValue(k)] : shape \in RecordShapes}

\* what conn.query answers with: a result without records, or up to MaxRecords records
QueryResults ==
    {[totalSize |-> 0]}
        \cup {[totalSize |-> 0, records |-> <<>>]}
        \cup UNION {{[totalSize |-> n, records |-> recs] : recs \in [1..n -> ReportRecords]} :
                        n \in 1..MaxRecords}

\* !queryResult.records || queryResult.records.length === 0, csvReport.js:23
NoRecords(queryResult) ==
    "records" \notin DOMAIN queryResult \/ Len(queryResult.records) = 0

Alnum ==
    {"a", "b", "c", "d", "e", "f", "g", "h", "i", "j", "k", "l", "m",
     "n", "o", "p", "q", "r", "s", "t", "u", "v", "w", "x", "y", "z",
     "A", "B", "C", "D", "E", "F", "G", "H", "I", "J", "K", "L", "M",
     "N", "O", "P", "Q", "R", "S", "T", "U", "V", "W", "X", "Y", "Z",
     "0", "1", "2", "3", "4", "5", "6", "7", "8", "9"}

RECURSIVE ReplaceChars(_, _, _)
\* s.replace(/[...]/g, by): every character of s that is in chars becomes by
ReplaceChars(s, chars, by) ==
    IF Len(s) = 0 THEN ""
    ELSE (IF SubSeq(s, 1, 1) \in chars THEN by ELSE SubSeq(s, 1, 1))
            \o ReplaceChars(SubSeq(s, 2, Len(s)), chars, by)

RECURSIVE Sanitize(_)
\* reportName.replace(/[^a-z0-9]/gi, '_'), csvReport.js:34
Sanitize(s) ==
    IF Len(s) = 0 THEN ""
    ELSE (IF SubSeq(s, 1, 1) \in Alnum THEN SubSeq(s, 1, 1) ELSE "_")
            \o Sanitize(SubSeq(s, 2, Len(s)))

\* a number in at least width digits
Pad(n, width) ==
    LET digits == ToString(n)
    IN  IF Len(digits) >= width THEN digits
        ELSE SubSeq("000", 1, width - Len(digits)) \o digits

\* the day the process starts on
StartDay == "2024-06-01"

\* new Date().toISOString() at clock ms, the process having started at midnight
ToISOString(ms) ==
    StartDay \o "T" \o Pad((ms \div 3600000) % 24, 2)
             \o ":" \o Pad((ms \div 60000) % 60, 2)
             \o ":" \o Pad((ms \div 1000) % 60, 2)
             \o "." \o Pad(ms % 1000, 3) \o "Z"

\* csvReport.js:33-34 with a stamp of millisecond resolution
ReportFilename(reportName, ms) ==
    Sanitize(reportName) \o "_" \o ReplaceChars(ToISOString(ms), {":", "."}, "-") \o ".csv"

\* the column order of the records: Object.keys follows the order of the SELECT
KeyOrder == <<"attributes", "Id", "Email">>

\* Object.keys(obj)
ObjectKeys(obj) == SelectSeq(KeyOrder, LAMBDA k : k \in DOMAIN obj)

\* the columns are the keys of every record
ReportFields_allRecords(records) ==
    SelectSeq(KeyOrder, LAMBDA k : k # "attributes" /\ \E n \in 1..Len(records) :
                                        k \in DOMAIN records[n])

\* csvReport.js:38-39
ReportFields(records) ==
    SelectSeq(ObjectKeys(records[1]), LAMBDA field : field # "attributes")

\* csvReport.js:42-48: a field the record lacks is undefined in its row
CsvData(records, fields) ==
    [n \in 1..Len(records) |->
        [field \in {fields[i] : i \in 1..Len(fields)} |->
            IF field \in DOMAIN records[n] THEN records[n][field] ELSE UNDEFINED]]

\* path.join(os.tmpdir(), filename), csvReport.js:35
TmpPath(filename) == "/tmp/" \o filename

NoQueryResult == [pending |-> TRUE]

NoReportResult == [pending |-> TRUE]

NoBody == [sent |-> FALSE]

NoJson == [none |-> TRUE]

\* a request the server has not received yet
NoReport ==
    [stage |-> "idle", reportName |-> NULL, soql |-> NULL, queryResult |-> NoQueryResult,
     found |-> "pending", fields |-> <<>>, csvData |-> <<>>, filename |-> NULL,
     result |-> NoReportResult, status |-> 0, json |-> NoJson, body |-> NoBody]

\* the handler is over: its locals and those of generateCsvReport are gone with it;
\* what stays is what went to the caller and the name of the file
Finished(report) ==
    [report EXCEPT !.stage = "done", !.queryResult = NoQueryResult,
                   !.fields = <<>>, !.csvData = <<>>, !.result = NoReportResult]

\* an uncaught exception ends the process and with it every request in progress;
\* the files stay
Crash ==
    /\ crashed' = TRUE
    /\ reports' = [r \in ReportIds |->
                        IF reports[r].stage \in {"idle", "done"} THEN reports[r]
                        ELSE [Finished(reports[r]) EXCEPT !.stage = "lost"]]
    /\ UNCHANGED disk

\* res.status(status).json(json) ends the request
ReportAnswer(r, status, json) ==
    [reports EXCEPT ![r] = [Finished(@) EXCEPT !.status = status, !.json = json]]

\* csvReport.js:231-252 and 255: the handler runs up to its first await
HandleReport(r) ==
    /\ ~crashed
    /\ reports[r].stage = "idle"
    /\ \E soql \in {UNDEFINED, CallerSoql} : \E description \in {UNDEFINED, "open deals"} :
       \E reportName \in ReportNames :
          LET named == [reports EXCEPT ![r].reportName =
                            IF reportName # UNDEFINED THEN reportName ELSE "Contacts_Report"]
          IN  reports' =
                IF soql # UNDEFINED
                THEN [named EXCEPT ![r].stage = "awaitQuery", ![r].soql = soql]
                ELSE IF description # UNDEFINED
                THEN [named EXCEPT ![r].stage = "awaitGenerate"]
                ELSE ReportAnswer(r, 400,
                        [error |-> "Either SOQL query or report description is required"])
    /\ UNCHANGED <<disk, crashed>>
    /\ UNCHANGED <<importVars, rateVars, mapVars, apiVars, sessVars>>

\* csvReport.js:244-251: generateReportQuery answers with the query of the model
GenerateAnswers(r) ==
    /\ ~crashed
    /\ reports[r].stage = "awaitGenerate"
    /\ reports' = [reports EXCEPT ![r].stage = "awaitQuery", ![r].soql = GeneratedSoql]
    /\ UNCHANGED <<disk, crashed>>
    /\ UNCHANGED <<importVars, rateVars, mapVars, apiVars, sessVars>>

\* csvReport.js:276-279: generateReportQuery raises
GenerateRaises(r) ==
    /\ ~crashed
    /\ reports[r].stage = "awaitGenerate"
    /\ \E message \in {TransportError} : reports' = ReportAnswer(r, 500, [error |-> message])
    /\ UNCHANGED <<disk, crashed>>
    /\ UNCHANGED <<importVars, rateVars, mapVars, apiVars, sessVars>>

\* fs.createWriteStream(filePath), csvReport.js:76: the file is there, empty
CreateFile(filePath, r) ==
    SetKey(disk, filePath, [headers |-> <<>>, rows |-> <<>>, writer |-> r])

\* csvReport.js:21-51: the query answers; without records generateCsvReport returns
\* its failure, otherwise the file is named and its writing starts
ReportQueryAnswers(r) ==
    /\ ~crashed
    /\ reports[r].stage = "awaitQuery"
    /\ \E queryResult \in QueryResults :
          IF NoRecords(queryResult)
          THEN /\ reports' = [reports EXCEPT
                        ![r].stage = "notFound",
                        ![r].found = "none",
                        ![r].queryResult = queryResult,
                        ![r].result = [success |-> FALSE,
                                       error |-> "No records found for the specified query",
                                       query |-> reports[r].soql]]
               /\ UNCHANGED disk
          ELSE LET filename == ReportFilename(reports[r].reportName, now)
                   fields == ReportFields(queryResult.records)
               IN  /\ reports' = [reports EXCEPT
                            ![r].stage = "writing",
                            ![r].found = "some",
                            ![r].queryResult = queryResult,
                            ![r].filename = filename,
                            ![r].fields = fields,
                            ![r].csvData = CsvData(queryResult.records, fields)]
                   /\ disk' = CreateFile(TmpPath(filename), r)
    /\ UNCHANGED crashed
    /\ UNCHANGED <<importVars, rateVars, mapVars, apiVars, sessVars>>

\* an empty report is answered as a download of nothing
ReportNotFound_emptyDownload(r) ==
    /\ ~crashed
    /\ reports[r].stage = "notFound"
    /\ reports' = ReportAnswer(r, 200, NoJson)
    /\ UNCHANGED <<disk, crashed>>
    /\ UNCHANGED <<importVars, rateVars, mapVars, apiVars, sessVars>>

\* csvReport.js:260-262: res.status(404).json(reportResult)
ReportNotFound(r) ==
    /\ ~crashed
    /\ reports[r].stage = "notFound"
    /\ reports' = ReportAnswer(r, 404, reports[r].result)
    /\ UNCHANGED <<disk, crashed>>
    /\ UNCHANGED <<importVars, rateVars, mapVars, apiVars, sessVars>>

\* csvReport.js:61-64 and 276-279: the query raises
ReportQueryRaises(r) ==
    /\ ~crashed
    /\ reports[r].stage = "awaitQuery"
    /\ \E message \in {TransportError} : reports' = ReportAnswer(r, 500, [error |-> message])
    /\ UNCHANGED <<disk, crashed>>
    /\ UNCHANGED <<importVars, rateVars, mapVars, apiVars, sessVars>>

\* csvReport.js:53-60 and 80-83, then 265-270: the file is written, generateCsvReport
\* returns and the handler starts to stream the file
WriteFinish(r) ==
    /\ ~crashed
    /\ reports[r].stage = "writing"
    /\ disk' = SetKey(disk, TmpPath(reports[r].filename),
                      [headers |-> reports[r].fields, rows |-> reports[r].csvData,
                       writer |-> r])
    /\ reports' = [reports EXCEPT
            ![r].stage = "streaming",
            ![r].result = [success |-> TRUE,
                           filename |-> reports[r].filename,
                           filePath |-> TmpPath(reports[r].filename),
                           recordCount |-> Len(reports[r].queryResult.records),
                           fields |-> reports[r].fields,
                           query |-> reports[r].soql],
            ![r].status = 200]
    /\ UNCHANGED crashed
    /\ UNCHANGED <<importVars, rateVars, mapVars, apiVars, sessVars>>

\* csvReport.js:84-87 and 276-279: the write stream raises, the handler answers 500
WriteError(r) ==
    /\ ~crashed
    /\ reports[r].stage = "writing"
    /\ \E message \in {"ENOSPC: no space left on device, write"} :
          reports' = ReportAnswer(r, 500, [error |-> message])
    /\ UNCHANGED <<disk, crashed>>
    /\ UNCHANGED <<importVars, rateVars, mapVars, apiVars, sessVars>>

\* csvReport.js:269-275: the read stream ends, the file has gone to the caller (body
\* says whose writing it held) and is unlinked; unlinkSync of a file that is not there raises in the event handler,
\* which nothing catches
StreamEnd(r) ==
    /\ ~crashed
    /\ reports[r].stage = "streaming"
    /\ LET filePath == reports[r].result.filePath
       IN  IF filePath \in DOMAIN disk
           THEN /\ reports' = [reports EXCEPT ![r] =
                        [Finished(@) EXCEPT !.body =
                            [sent |-> TRUE, writer |-> disk[filePath].writer]]]
                /\ disk' = DeleteKey(disk, filePath)
                /\ UNCHANGED crashed
           ELSE Crash
    /\ UNCHANGED <<importVars, rateVars, mapVars, apiVars, sessVars>>

\* the caller closes the connection: pipe stops reading, 'end' is never emitted
StreamAbort(r) ==
    /\ ~crashed
    /\ reports[r].stage = "streaming"
    /\ reports' = [reports EXCEPT ![r] = Finished(@)]
    /\ UNCHANGED <<disk, crashed>>
    /\ UNCHANGED <<importVars, rateVars, mapVars, apiVars, sessVars>>

\* the read stream emits 'error', for which csvReport.js:269-275 has no listener
StreamError(r) ==
    /\ ~crashed
    /\ reports[r].stage = "streaming"
    /\ Crash
    /\ UNCHANGED <<importVars, rateVars, mapVars, apiVars, sessVars>>

\* a millisecond passes
ClockTick ==
    /\ ~crashed
    /\ ticks < MaxTicks
    /\ ticks' = ticks + 1
    /\ now' = now + 1
    /\ UNCHANGED <<requestCounts, lastResponse, reqWindow, served>>
    /\ UNCHANGED <<importVars, mapVars, apiVars, reportVars, sessVars>>

\* a step of the handler of one request
ReportStep(r) ==
    \/ HandleReport(r)
    \/ GenerateAnswers(r)
    \/ GenerateRaises(r)
    \/ ReportQueryAnswers(r)
    \/ ReportNotFound(r)
    \/ ReportQueryRaises(r)
    \/ WriteFinish(r)
    \/ WriteError(r)
    \/ StreamEnd(r)
    \/ StreamAbort(r)
    \/ StreamError(r)

\* the requests are served concurrently
ReportNext ==
    \/ \E r \in ReportIds : ReportStep(r)
    \/ ClockTick

\* one request is served on its own
OneReportNext ==
    \/ ReportStep("r1")
    \/ ClockTick

----------------------------------------------------------------------------
(* The CRM session, salesforce.js:4-37: the startup call of index.js:38-41 and the
   CRM operations of concurrent requests, each split at its awaits.  A connection is
   the number of the jsforce.Connection object, in order of construction.  index.js
   calls setupSalesforce() before it starts to listen (index.js:38 and 67), so the
   login of the startup call is in flight when the first request arrives. *)

\* the startup call and the requests whose handlers call the adapter
Callers == {"startup", "c1", "c2"}

\* salesforce.js:42-122
CrmOperations == {"query", "create", "update", "delete", "describe"}

NoConnection == 0

\* process.exit(1) has not been called, index.js:38-41
Running == sessPc["startup"] # "exited"

\* salesforce.js:10-15: setupSalesforce makes its Connection and starts the login
BeginLogin(p, op) ==
    /\ sessConn' = [sessConn EXCEPT ![p] = nextConn]
    /\ nextConn' = nextConn + 1
    /\ sessOp' = [sessOp EXCEPT ![p] = op]
    /\ sessPc' = [sessPc EXCEPT ![p] = "login"]
    /\ logins' = Append(logins, [caller |-> p, conn |-> nextConn, shared |-> connection])

\* getConnection() at the head of a CRM operation, salesforce.js:32-37
GetConnection(p) ==
    /\ Running
    /\ sessPc[p] = "idle"
    /\ \E op \in CrmOperations :
          IF connection = NoConnection
          THEN BeginLogin(p, op)
          ELSE /\ sessConn' = [sessConn EXCEPT ![p] = connection]
               /\ sessOp' = [sessOp EXCEPT ![p] = op]
               /\ sessPc' = [sessPc EXCEPT ![p] = "operate"]
               /\ UNCHANGED <<nextConn, logins>>
    /\ UNCHANGED <<connection, established, used>>
    /\ UNCHANGED <<importVars, rateVars, mapVars, apiVars, reportVars>>

\* salesforce.js:15-22: the login succeeds, so connection = conn
LoginSucceeds(p) ==
    /\ Running
    /\ sessPc[p] = "login"
    /\ established' = Append(established, [conn |-> sessConn[p], replaced |-> connection])
    /\ connection' = sessConn[p]
    /\ sessPc' = [sessPc EXCEPT ![p] = IF p = "startup" THEN "done" ELSE "operate"]
    /\ UNCHANGED <<sessConn, sessOp, nextConn, logins, used>>
    /\ UNCHANGED <<importVars, rateVars, mapVars, apiVars, reportVars>>

\* salesforce.js:23-26: the login raises; at startup the process exits
\* (index.js:38-41), in a request the operation raises
LoginFails(p) ==
    /\ Running
    /\ sessPc[p] = "login"
    /\ sessPc' = [sessPc EXCEPT ![p] = IF p = "startup" THEN "exited" ELSE "raised"]
    /\ UNCHANGED <<connection, sessConn, sessOp, nextConn, logins, established, used>>
    /\ UNCHANGED <<importVars, rateVars, mapVars, apiVars, reportVars>>

\* conn.query(soql), conn.sobject(...).create(record), ...: the operation runs on the
\* connection getConnection returned
Operate(p) ==
    /\ Running
    /\ sessPc[p] = "operate"
    /\ used' = Append(used, [caller |-> p, op |-> sessOp[p], conn |-> sessConn[p],
                             shared |-> connection])
    /\ sessPc' = [sessPc EXCEPT ![p] = "done"]
    /\ UNCHANGED <<connection, sessConn, sessOp, nextConn, logins, established>>
    /\ UNCHANGED <<importVars, rateVars, mapVars, apiVars, reportVars>>

SessionNext ==
    \/ \E p \in Callers \ {"startup"} :
        \/ GetConnection(p)
        \/ Operate(p)
    \/ \E p \in Callers :
        \/ LoginSucceeds(p)
        \/ LoginFails(p)

----------------------------------------------------------------------------
(* importContactsFromCSV, csvImport.js:11-86 *)

Init ==
    /\ pc = "parse"
    /\ fileExists = TRUE
    /\ contacts = <<>>
    /\ idx = 0
    /\ contactRecord = NULL
    /\ successfulRecords = <<>>
    /\ errors = <<>>
    /\ returned = NULL
    /\ thrown = NULL
    /\ calls = <<>>
    /\ sfAccounts \in InitialAccounts
    /\ sfNextId = 3
    /\ now = 0
    /\ requestCounts = ObjectPrototype
    /\ lastResponse = [k \in CallerKeys |-> NoResponse]
    /\ reqWindow = [k \in CallerKeys |-> NoWindow]
    /\ served = 0
    /\ ticks = 0
    /\ mapStage = "idle"
    /\ mapRow = NULL
    /\ mapRecord = NULL
    /\ apiReq = NoRequest
    /\ apiStage = "idle"
    /\ anthropicKey = UNDEFINED
    /\ apiStep = 0
    /\ apiCalls = <<>>
    /\ apiResponses = <<>>
    /\ apiBefore = ObjectPrototype
    /\ apiTrace = <<>>
    /\ reports = [r \in ReportIds |-> NoReport]
    /\ disk = <<>>
    /\ crashed = FALSE
    /\ connection = NoConnection
    /\ sessPc = [p \in Callers |-> IF p = "startup" THEN "login" ELSE "idle"]
    /\ sessConn = [p \in Callers |-> IF p = "startup" THEN 1 ELSE NoConnection]
    /\ sessOp = [p \in Callers |-> IF p = "startup" THEN "setup" ELSE NULL]
    /\ nextConn = 2
    /\ logins = <<[caller |-> "startup", conn |-> 1, shared |-> NoConnection]>>
    /\ established = <<>>
    /\ used = <<>>

\* csvImport.js:20-27, the stream ends: the rows are in memory
ParseOk ==
    /\ pc = "parse"
    /\ \E file \in CsvFiles : contacts' = file
    /\ idx' = 1
    /\ pc' = "loop"
    /\ UNCHANGED <<fileExists, contactRecord, successfulRecords, errors, returned,
                   thrown, calls, sfAccounts, sfNextId>>
    /\ UNCHANGED <<rateVars, mapVars, apiVars, reportVars, sessVars>>

\* csvImport.js:26 and 82-85, the stream raises: the import rethrows
ParseFail ==
    /\ pc = "parse"
    /\ thrown' = ParseError
    /\ pc' = "threw"
    /\ UNCHANGED <<fileExists, contacts, idx, contactRecord, successfulRecords, errors,
                   returned, calls, sfAccounts, sfNextId>>
    /\ UNCHANGED <<rateVars, mapVars, apiVars, reportVars, sessVars>>

\* the row is started without awaiting the Contact create of the row before it
StartRow_noAwait ==
    /\ pc \in {"loop", "awaitContactCreate"}
    /\ LET i == IF pc = "loop" THEN idx ELSE idx + 1
           rec == IF i <= Len(contacts) THEN mapContactFields(contacts[i]) ELSE <<>>
       IN  /\ i <= Len(contacts)
           /\ idx' = i
           /\ contactRecord' = rec
           /\ IF Truthy(rec, "AccountName")
              THEN /\ calls' = Append(calls,
                            [Call("query", "Account", AccountQuery(rec["AccountName"]))
                                EXCEPT !.row = i])
                   /\ pc' = "awaitQuery"
              ELSE /\ calls' = Append(calls, [Call("create", "Contact", rec) EXCEPT !.row = i])
                   /\ pc' = "awaitContactCreate"
    /\ UNCHANGED <<fileExists, contacts, successfulRecords, errors, returned,
                   thrown, sfAccounts, sfNextId>>
    /\ UNCHANGED <<rateVars, mapVars, apiVars, reportVars, sessVars>>

\* csvImport.js:32-39 and 48: map the row, then issue its first CRM call
StartRow ==
    /\ pc = "loop"
    /\ idx <= Len(contacts)
    /\ LET rec == mapContactFields(contacts[idx])
       IN  /\ contactRecord' = rec
           /\ IF Truthy(rec, "AccountName")
              THEN /\ calls' = querySalesforce(AccountQuery(rec["AccountName"]))
                   /\ pc' = "awaitQuery"
              ELSE /\ calls' = createRecord("Contact", rec)
                   /\ pc' = "awaitContactCreate"
    /\ UNCHANGED <<fileExists, contacts, idx, successfulRecords, errors, returned,
                   thrown, sfAccounts, sfNextId>>
    /\ UNCHANGED <<rateVars, mapVars, apiVars, reportVars, sessVars>>

\* the same step without the delete of csvImport.js:44
ResolveAccount_keepName(rec, accountId) ==
    IF accountId # NULL /\ accountId # ""
    THEN SetKey(rec, "AccountId", accountId)
    ELSE rec

\* csvImport.js:40-44: attach the id findOrCreateAccount returned, drop AccountName
ResolveAccount(rec, accountId) ==
    DeleteKey(IF accountId # NULL /\ accountId # ""
              THEN SetKey(rec, "AccountId", accountId)
              ELSE rec,
              "AccountName")

\* csvImport.js:40-48: findOrCreateAccount has returned accountId; submit the Contact
AttachAndSubmit(settled, accountId) ==
    LET rec == ResolveAccount(contactRecord, accountId)
    IN  /\ contactRecord' = rec
        /\ calls' = Append(settled, Call("create", "Contact", rec))
        /\ pc' = "awaitContactCreate"

\* the id of the last record the lookup returned
FoundAccountId_last(records) == records[Len(records)].Id

\* csvImport.js:149-151
FoundAccountId(records) == records[1].Id

\* csvImport.js:147-154: the lookup answers
QueryAnswers ==
    /\ pc = "awaitQuery"
    /\ LET records == QueryRecords(calls[Len(calls)].arg)
           settled == Settle(calls, "ok", records)
       IN  IF Len(records) > 0
           THEN AttachAndSubmit(settled, FoundAccountId(records))
           ELSE /\ calls' = Append(settled,
                        Call("create", "Account", [Name |-> contactRecord["AccountName"]]))
                /\ pc' = "awaitAccountCreate"
                /\ UNCHANGED contactRecord
    /\ UNCHANGED <<fileExists, contacts, idx, successfulRecords, errors, returned,
                   thrown, sfAccounts, sfNextId>>
    /\ UNCHANGED <<rateVars, mapVars, apiVars, reportVars, sessVars>>

\* the lookup raises and is tried again
QueryRaises_retry ==
    /\ pc = "awaitQuery"
    /\ calls' = Append(Settle(calls, "raised", NULL),
                       Call("query", "Account", calls[Len(calls)].arg))
    /\ UNCHANGED <<pc, fileExists, contacts, idx, contactRecord, successfulRecords, errors,
                   returned, thrown, sfAccounts, sfNextId>>
    /\ UNCHANGED <<rateVars, mapVars, apiVars, reportVars, sessVars>>

\* csvImport.js:162-165: the lookup raises, findOrCreateAccount returns null
QueryRaises ==
    /\ pc = "awaitQuery"
    /\ AttachAndSubmit(Settle(calls, "raised", NULL), NULL)
    /\ UNCHANGED <<fileExists, contacts, idx, successfulRecords, errors, returned,
                   thrown, sfAccounts, sfNextId>>
    /\ UNCHANGED <<rateVars, mapVars, apiVars, reportVars, sessVars>>

\* csvImport.js:156-158: the Account create reports success
AccountCreateSucceeds ==
    /\ pc = "awaitAccountCreate"
    /\ LET id == ToString(sfNextId)
       IN  /\ sfAccounts' = Append(sfAccounts,
                                [Id |-> id, Name |-> calls[Len(calls)].arg["Name"]])
           /\ sfNextId' = sfNextId + 1
           /\ AttachAndSubmit(Settle(calls, "ok", id), id)
    /\ UNCHANGED <<fileExists, contacts, idx, successfulRecords, errors, returned, thrown>>
    /\ UNCHANGED <<rateVars, mapVars, apiVars, reportVars, sessVars>>

\* the Account create reports success = false and that fails the row
AccountCreateFails_rowError ==
    /\ pc = "awaitAccountCreate"
    /\ errors' = Append(errors, [record |-> contacts[idx], error |-> TransportError])
    /\ calls' = Settle(calls, "failed", NULL)
    /\ idx' = idx + 1
    /\ pc' = "loop"
    /\ UNCHANGED <<fileExists, contacts, contactRecord, successfulRecords, returned,
                   thrown, sfAccounts, sfNextId>>
    /\ UNCHANGED <<rateVars, mapVars, apiVars, reportVars, sessVars>>

\* csvImport.js:160-161: the Account create reports success = false
AccountCreateFails ==
    /\ pc = "awaitAccountCreate"
    /\ AttachAndSubmit(Settle(calls, "failed", NULL), NULL)
    /\ UNCHANGED <<fileExists, contacts, idx, successfulRecords, errors, returned,
                   thrown, sfAccounts, sfNextId>>
    /\ UNCHANGED <<rateVars, mapVars, apiVars, reportVars, sessVars>>

\* csvImport.js:162-165: the Account create raises
AccountCreateRaises ==
    /\ pc = "awaitAccountCreate"
    /\ AttachAndSubmit(Settle(calls, "raised", NULL), NULL)
    /\ UNCHANGED <<fileExists, contacts, idx, successfulRecords, errors, returned,
                   thrown, sfAccounts, sfNextId>>
    /\ UNCHANGED <<rateVars, mapVars, apiVars, reportVars, sessVars>>

\* the display name of a created Contact, csvImport.js:53
DisplayName(rec) ==
    Trim((IF Truthy(rec, "FirstName") THEN rec["FirstName"] ELSE "") \o " " \o rec["LastName"])

\* csvImport.js:50-54 and 62: the Contact create reports success
ContactCreateSucceeds ==
    /\ pc = "awaitContactCreate"
    /\ successfulRecords' = Append(successfulRecords,
            [id |-> ToString(sfNextId), name |-> DisplayName(contactRecord)])
    /\ sfNextId' = sfNextId + 1
    /\ calls' = Settle(calls, "ok", ToString(sfNextId))
    /\ idx' = idx + 1
    /\ pc' = "loop"
    /\ UNCHANGED <<fileExists, contacts, contactRecord, errors, returned, thrown, sfAccounts>>
    /\ UNCHANGED <<rateVars, mapVars, apiVars, reportVars, sessVars>>

\* the Contact create reports success = false and the row is recorded nowhere
ContactCreateFails_unrecorded ==
    /\ pc = "awaitContactCreate"
    /\ calls' = Settle(calls, "failed", NULL)
    /\ idx' = idx + 1
    /\ pc' = "loop"
    /\ UNCHANGED <<fileExists, contacts, contactRecord, successfulRecords, errors,
                   returned, thrown, sfAccounts, sfNextId>>
    /\ UNCHANGED <<rateVars, mapVars, apiVars, reportVars, sessVars>>

\* csvImport.js:55-60 and 62: the Contact create reports success = false
ContactCreateFails ==
    /\ pc = "awaitContactCreate"
    /\ errors' = Append(errors,
            [record |-> contactRecord, error |-> Join(CreateErrors, ", ")])
    /\ calls' = Settle(calls, "failed", NULL)
    /\ idx' = idx + 1
    /\ pc' = "loop"
    /\ UNCHANGED <<fileExists, contacts, contactRecord, successfulRecords, returned,
                   thrown, sfAccounts, sfNextId>>
    /\ UNCHANGED <<rateVars, mapVars, apiVars, reportVars, sessVars>>

\* the Contact create raises and no try/catch stands around the row: the import ends
ContactCreateRaises_abort ==
    /\ pc = "awaitContactCreate"
    /\ thrown' = TransportError
    /\ calls' = Settle(calls, "raised", NULL)
    /\ pc' = "threw"
    /\ UNCHANGED <<fileExists, contacts, idx, contactRecord, successfulRecords, errors,
                   returned, sfAccounts, sfNextId>>
    /\ UNCHANGED <<rateVars, mapVars, apiVars, reportVars, sessVars>>

\* csvImport.js:63-69: the Contact create raises
ContactCreateRaises ==
    /\ pc = "awaitContactCreate"
    /\ errors' = Append(errors, [record |-> contacts[idx], error |-> TransportError])
    /\ calls' = Settle(calls, "raised", NULL)
    /\ idx' = idx + 1
    /\ pc' = "loop"
    /\ UNCHANGED <<fileExists, contacts, contactRecord, successfulRecords, returned,
                   thrown, sfAccounts, sfNextId>>
    /\ UNCHANGED <<rateVars, mapVars, apiVars, reportVars, sessVars>>

\* the loop is over and the uploaded file is removed only when no row failed
Cleanup_onlyOnSuccess ==
    /\ pc = "loop"
    /\ idx > Len(contacts)
    /\ fileExists' = (Len(errors) > 0)
    /\ pc' = "cleaned"
    /\ UNCHANGED <<contacts, idx, contactRecord, successfulRecords, errors, returned,
                   thrown, calls, sfAccounts, sfNextId>>
    /\ UNCHANGED <<rateVars, mapVars, apiVars, reportVars, sessVars>>

\* csvImport.js:73: the loop is over, the uploaded file is removed
Cleanup ==
    /\ pc = "loop"
    /\ idx > Len(contacts)
    /\ fileExists' = FALSE
    /\ pc' = "cleaned"
    /\ UNCHANGED <<contacts, idx, contactRecord, successfulRecords, errors, returned,
                   thrown, calls, sfAccounts, sfNextId>>
    /\ UNCHANGED <<rateVars, mapVars, apiVars, reportVars, sessVars>>

\* csvImport.js:75-81
Return ==
    /\ pc = "cleaned"
    /\ returned' = [totalProcessed    |-> Len(contacts),
                    successful        |-> Len(successfulRecords),
                    failed            |-> Len(errors),
                    successfulRecords |-> successfulRecords,
                    errors            |-> errors]
    /\ pc' = "returned"
    /\ UNCHANGED <<fileExists, contacts, idx, contactRecord, successfulRecords, errors,
                   thrown, calls, sfAccounts, sfNextId>>
    /\ UNCHANGED <<rateVars, mapVars, apiVars, reportVars, sessVars>>

----------------------------------------------------------------------------
(* The record of one row, csvImport.js:35-48, over every shape of row *)

MapKeys == {"LastName", "Email", "MailingCity", "AccountName", "AccountId", "Tier__c", "Notes"}

\* a row holds any subset of the columns, each cell empty or not
MapRows == UNION { [K -> {"", "v"}] : K \in SUBSET MapKeys }

\* what findOrCreateAccount can return: null or an Account id
AccountIds == {NULL, "7"}

\* csv-parser hands over a row
MapRead ==
    /\ mapStage = "idle"
    /\ \E row \in MapRows : mapRow' = row
    /\ mapStage' = "row"
    /\ UNCHANGED <<mapRecord, importVars, rateVars, apiVars, reportVars, sessVars>>

\* csvImport.js:35
MapFields ==
    /\ mapStage = "row"
    /\ mapRecord' = mapContactFields(mapRow)
    /\ mapStage' = "mapped"
    /\ UNCHANGED <<mapRow, importVars, rateVars, apiVars, reportVars, sessVars>>

\* csvImport.js:38-48: the record handed to createRecord('Contact', ...)
MapResolve ==
    /\ mapStage = "mapped"
    /\ \E accountId \in AccountIds :
            mapRecord' = IF Truthy(mapRecord, "AccountName")
                         THEN ResolveAccount(mapRecord, accountId)
                         ELSE mapRecord
    /\ mapStage' = "submitted"
    /\ UNCHANGED <<mapRow, importVars, rateVars, apiVars, reportVars, sessVars>>

MapNext == MapRead \/ MapFields \/ MapResolve

Next ==
    \/ ParseOk
    \/ ParseFail
    \/ StartRow
    \/ QueryAnswers
    \/ QueryRaises
    \/ AccountCreateSucceeds
    \/ AccountCreateFails
    \/ AccountCreateRaises
    \/ ContactCreateSucceeds
    \/ ContactCreateFails
    \/ ContactCreateRaises
    \/ Cleanup
    \/ Return

Spec == Init /\ [][Next]_vars

RateInit == Init /\ sfAccounts = <<>>

RateSpec == RateInit /\ [][RateNext]_vars

MapInit == Init /\ sfAccounts = <<>>

MapSpec == MapInit /\ [][MapNext]_vars

ApiSpec == RateInit /\ [][ApiNext]_vars

ReportSpec == RateInit /\ [][ReportNext]_vars

OneReportSpec == RateInit /\ [][OneReportNext]_vars

SessionSpec == RateInit /\ [][SessionNext]_vars

----------------------------------------------------------------------------
(* The calls of the import, read off the log *)

ContactCalls ==
    {n \in 1..Len(calls) : calls[n].op = "create" /\ calls[n].object = "Contact"}

AccountCreates ==
    {n \in 1..Len(calls) : calls[n].op = "create" /\ calls[n].object = "Account"}

Lookups == {n \in 1..Len(calls) : calls[n].op = "query"}

\* the rows whose Contact create call has been issued
Submitted == {calls[n].row : n \in ContactCalls}

----------------------------------------------------------------------------
(* C1: partial-failure isolation.  When the Contact create call of row i raises, the
   import is not aborted: the errors list holds the original CSV row i with the
   exception's message, the loop has moved past row i, and once the loop is over
   every row after i has had its Contact create call issued and answered. *)
C1_PartialFailureIsolation ==
    \A n \in ContactCalls :
        calls[n].outcome = "raised" =>
            LET i == calls[n].row
            IN  /\ pc # "threw"
                /\ idx > i
                /\ \E e \in 1..Len(errors) :
                        errors[e] = [record |-> contacts[i], error |-> TransportError]
                /\ pc \in {"cleaned", "returned"} =>
                        \A j \in (i + 1)..Len(contacts) :
                            \E m \in ContactCalls :
                                calls[m].row = j /\ calls[m].outcome # "pending"

\* row 1 raised, row 2 was then submitted and created, and the import returned
C1_Witness ==
    /\ pc = "returned"
    /\ Len(contacts) = 2
    /\ \E n, m \in ContactCalls :
            /\ calls[n].row = 1 /\ calls[n].outcome = "raised"
            /\ calls[m].row = 2 /\ calls[m].outcome = "ok"
    /\ returned.failed = 1
    /\ returned.successful = 1

(* C2: import result invariant.  Every returned result has
   totalProcessed = successful + failed, successful = Len(successfulRecords) and
   failed = Len(errors); while the loop runs, the rows already processed are split
   between the two lists, one entry each. *)
C2_ResultInvariant ==
    /\ pc = "loop" => Len(successfulRecords) + Len(errors) = idx - 1
    /\ pc = "returned" =>
            /\ returned.totalProcessed = Len(contacts)
            /\ returned.totalProcessed = returned.successful + returned.failed
            /\ returned.successful = Len(returned.successfulRecords)
            /\ returned.failed = Len(returned.errors)

\* a returned import with a created row and a failed row
C2_Witness ==
    /\ pc = "returned"
    /\ returned.successful = 1
    /\ returned.failed = 1
    /\ \E n \in ContactCalls : calls[n].outcome = "failed"

(* C3, as claimed: parent resolution.  For a row with a non-empty AccountName whose
   lookup was answered: with at least one record, no Account is created and the
   Contact is submitted with the first record's Id as AccountId; with no record,
   exactly one Account of that Name is created and the Contact is submitted with
   the created Account's id as AccountId. *)
C3_AsClaimed ==
    \A q \in Lookups : \A c \in ContactCalls :
        (calls[q].outcome = "ok" /\ calls[c].row = calls[q].row) =>
            LET i == calls[q].row
                issued == {a \in AccountCreates : calls[a].row = i}
                created == {a \in issued : calls[a].outcome = "ok"}
            IN  IF Len(calls[q].result) > 0
                THEN /\ issued = {}
                     /\ "AccountId" \in DOMAIN calls[c].arg
                     /\ calls[c].arg["AccountId"] = calls[q].result[1].Id
                ELSE /\ Cardinality(created) = 1
                     /\ \A a \in created :
                            /\ calls[a].arg = [Name |-> contacts[i]["AccountName"]]
                            /\ "AccountId" \in DOMAIN calls[c].arg
                            /\ calls[c].arg["AccountId"] = calls[a].result

(* C3, amended: as claimed when the lookup returns a record; when it returns none,
   exactly one Account create call of that Name is issued, and when that call
   reports success the Contact is submitted with the created Account's id as
   AccountId. *)
C3_ParentResolution ==
    \A q \in Lookups : \A c \in ContactCalls :
        (calls[q].outcome = "ok" /\ calls[c].row = calls[q].row) =>
            LET i == calls[q].row
                issued == {a \in AccountCreates : calls[a].row = i}
            IN  IF Len(calls[q].result) > 0
                THEN /\ issued = {}
                     /\ "AccountId" \in DOMAIN calls[c].arg
                     /\ calls[c].arg["AccountId"] = calls[q].result[1].Id
                ELSE /\ Cardinality(issued) = 1
                     /\ \A a \in issued :
                            /\ calls[a].arg = [Name |-> contacts[i]["AccountName"]]
                            /\ calls[a].outcome = "ok" =>
                                    /\ "AccountId" \in DOMAIN calls[c].arg
                                    /\ calls[c].arg["AccountId"] = calls[a].result

\* row 1 found no Account and had one created, row 2 found that one
C3_Witness ==
    \E q1, q2 \in Lookups : \E a \in AccountCreates : \E c1, c2 \in ContactCalls :
        /\ calls[q1].outcome = "ok" /\ Len(calls[q1].result) = 0
        /\ calls[a].row = calls[q1].row /\ calls[a].outcome = "ok"
        /\ calls[c1].row = calls[q1].row
        /\ calls[c1].arg["AccountId"] = calls[a].result
        /\ calls[q2].outcome = "ok" /\ Len(calls[q2].result) = 1
        /\ calls[c2].row = calls[q2].row
        /\ calls[c2].arg["AccountId"] = calls[q2].result[1].Id

(* C4: degraded parent link.  When the Account lookup raises, or the Account create
   raises or reports success = false, the very next call is the row's Contact
   create, with neither an AccountId nor an AccountName field; and a row is in the
   errors list only when its Contact create failed or raised, in the succeeded
   list when it was created. *)
C4_DegradedParentLink ==
    /\ \A n \in Lookups \cup AccountCreates :
            calls[n].outcome \in {"raised", "failed"} =>
                /\ n + 1 \in ContactCalls
                /\ calls[n + 1].row = calls[n].row
                /\ "AccountId" \notin DOMAIN calls[n + 1].arg
                /\ "AccountName" \notin DOMAIN calls[n + 1].arg
    /\ Len(errors) =
            Cardinality({c \in ContactCalls : calls[c].outcome \in {"raised", "failed"}})
    /\ Len(successfulRecords) = Cardinality({c \in ContactCalls : calls[c].outcome = "ok"})

\* an Account create reported failure, the lookup of another row raised, and both
\* rows were created without a parent: nothing is counted as failed
C4_Witness ==
    /\ pc = "returned"
    /\ returned.failed = 0
    /\ returned.successful = 2
    /\ \E n \in AccountCreates : calls[n].outcome = "failed" /\ calls[n + 1].outcome = "ok"
    /\ \E n \in Lookups : calls[n].outcome = "raised" /\ calls[n + 1].outcome = "ok"

\* the Contact create calls that were answered success, and those that were not
CreatedCalls ==
    SelectSeq(calls, LAMBDA c : c.op = "create" /\ c.object = "Contact" /\ c.outcome = "ok")

RejectedCalls ==
    SelectSeq(calls, LAMBDA c : c.op = "create" /\ c.object = "Contact"
                                    /\ c.outcome \in {"failed", "raised"})

(* C5, as claimed: reported outcomes of the Contact create call.  A create that
   returns success = true adds the returned id and the display name (FirstName,
   a space, LastName, trimmed) to successfulRecords; a create that returns
   success = false adds the original CSV row and the joined error text to errors. *)
C5_AsClaimed ==
    /\ \A k \in 1..Len(CreatedCalls) :
            LET rec == CreatedCalls[k].arg
            IN  successfulRecords[k] =
                    [id   |-> CreatedCalls[k].result,
                     name |-> Trim((IF "FirstName" \in DOMAIN rec THEN rec["FirstName"] ELSE "")
                                        \o " " \o rec["LastName"])]
    /\ \A k \in 1..Len(RejectedCalls) :
            RejectedCalls[k].outcome = "failed" =>
                errors[k] = [record |-> contacts[RejectedCalls[k].row],
                             error  |-> "DUPLICATES_DETECTED, FIELD_INTEGRITY_EXCEPTION"]

(* C6: required-field placeholder.  A row whose LastName is absent or empty is
   submitted with LastName = 'Unknown'; every row the loop has passed was submitted,
   none was rejected; and a two-row file whose second row alone lacks LastName, both
   creates succeeding, returns totalProcessed = 2, successful = 2, failed = 0. *)
C6_LastNamePlaceholder ==
    /\ \A c \in ContactCalls :
            ~Truthy(contacts[calls[c].row], "LastName") => calls[c].arg["LastName"] = "Unknown"
    /\ \A i \in 1..Len(contacts) : i < idx => i \in Submitted
    /\ ( /\ pc = "returned"
         /\ Len(contacts) = 2
         /\ Truthy(contacts[1], "LastName")
         /\ ~Truthy(contacts[2], "LastName")
         /\ \A c \in ContactCalls : calls[c].outcome = "ok" )
       => ( /\ returned.totalProcessed = 2
            /\ returned.successful = 2
            /\ returned.failed = 0 )

\* the two-row example: row 2 has an empty LastName and is created as 'Unknown'
C6_Witness ==
    /\ pc = "returned"
    /\ Len(contacts) = 2
    /\ Truthy(contacts[1], "LastName")
    /\ ~Truthy(contacts[2], "LastName")
    /\ \A c \in ContactCalls : calls[c].outcome = "ok"
    /\ \E c \in ContactCalls : calls[c].row = 2 /\ calls[c].arg["LastName"] = "Unknown"
    /\ returned.successful = 2

\* the standard fields a submitted Contact may carry
ForwardedFields ==
    {"LastName", "FirstName", "Email", "Phone", "MobilePhone", "Title", "Department",
     "Description", "MailingStreet", "MailingCity", "MailingState", "MailingPostalCode",
     "MailingCountry", "AccountId"}

(* C7: forwarded-field allow-list.  Every key of the record handed to the Contact
   create call is one of the listed standard fields or ends in '__c', and
   AccountName is never among them, whatever findOrCreateAccount returned. *)
C7_ForwardedAllowList ==
    mapStage = "submitted" =>
        /\ \A k \in DOMAIN mapRecord : k \in ForwardedFields \/ EndsWith(k, "__c")
        /\ "AccountName" \notin DOMAIN mapRecord

\* a row with an AccountName, a custom column, an unknown column and an AccountId
\* column, submitted with the resolved Account's id
C7_Witness ==
    /\ mapStage = "submitted"
    /\ Truthy(mapRow, "AccountName")
    /\ Truthy(mapRow, "Notes")
    /\ Truthy(mapRow, "AccountId")
    /\ DOMAIN mapRecord = {"LastName", "AccountId", "Tier__c"}
    /\ mapRecord["AccountId"] = "7"

(* C8: import file lifecycle.  A result is returned only after the uploaded file
   was deleted; the file is deleted only once the loop has passed the last row and
   every row's Contact create call was answered, however many rows failed; once
   parsing has succeeded the import never throws; and when parsing raises, the
   import throws that exception, returns nothing and has issued no CRM call. *)
C8_FileLifecycle ==
    /\ pc = "returned" => ~fileExists
    /\ ~fileExists =>
            /\ pc \in {"cleaned", "returned"}
            /\ idx = Len(contacts) + 1
            /\ \A i \in 1..Len(contacts) :
                    \E c \in ContactCalls : calls[c].row = i /\ calls[c].outcome # "pending"
    /\ pc \notin {"parse", "threw"} => thrown = NULL
    /\ pc = "threw" =>
            /\ thrown = ParseError
            /\ returned = NULL
            /\ calls = <<>>

\* both rows of a file failed, the file is gone and the result is returned
C8_Witness ==
    /\ pc = "returned"
    /\ ~fileExists
    /\ returned.totalProcessed = 2
    /\ returned.failed = 2

(* C9, as claimed: rate limiter bound.  For every caller key, the first
   RATE_LIMIT_MAX_REQUESTS requests of a window are passed on and every further
   request of that window is answered 429 with 0 <= retryAfter <= 60; the key's
   counter never exceeds RATE_LIMIT_MAX_REQUESTS. *)
C9_AsClaimed ==
    \A key \in CallerKeys :
        LET r == lastResponse[key]
        IN  /\ (r.status # 0 /\ r.nth <= RATE_LIMIT_MAX_REQUESTS) => r.status = 200
            /\ (r.status # 0 /\ r.nth > RATE_LIMIT_MAX_REQUESTS) =>
                    /\ r.status = 429
                    /\ IsNum(r.retryAfter)
                    /\ r.retryAfter.v >= 0
                    /\ r.retryAfter.v * 1000 <= RATE_LIMIT_WINDOW_MS
            /\ (key \in DOMAIN requestCounts /\ IsNum(requestCounts[key].count)) =>
                    requestCounts[key].count.v <= RATE_LIMIT_MAX_REQUESTS

(* C10, as claimed: rate limiter window reset.  For every caller key, a request
   that arrives when the clock has reached the recorded resetTime is allowed and
   leaves the counter at 1 in a fresh window that starts at that request; and a
   key answered 429 with retryAfter = r is allowed when it next asks r seconds
   later or more. *)
C10_AsClaimed ==
    \A key \in CallerKeys :
        LET r == lastResponse[key]
        IN  /\ (r.status # 0 /\ IsNum(r.resetBefore) /\ r.at >= r.resetBefore.v) =>
                    /\ r.status = 200
                    /\ requestCounts[key] =
                            [count |-> Num(1), resetTime |-> Num(r.at + RATE_LIMIT_WINDOW_MS)]
            /\ (r.status # 0 /\ r.prev.status = 429
                    /\ r.at >= r.prev.at + 1000 * r.prev.retryAfter.v) =>
                    r.status = 200

----------------------------------------------------------------------------
(* C11: authentication gate.  For every request to a route under /api/claude,
   /api/integrated, /api/csv/analyze or /api/csv/report: when it carries no x-api-key
   header, only authenticateAnthropicKey runs for it, the answer is 401, the counters of
   the rate limiter are what they were when it arrived and no CRM or model call is
   started; when it carries one, every model call made for it is given the value of
   the header as its key. *)
C11_AuthenticationGate ==
    (\E prefix \in {"/api/claude", "/api/integrated", "/api/csv/analyze", "/api/csv/report"} :
        Mounted(prefix, apiReq.path))
    => /\ apiReq.apiKey = UNDEFINED =>
            /\ apiStage \in {"auth", "done"}
            /\ apiTrace \in {<<>>, <<"authenticateAnthropicKey">>}
            /\ requestCounts = apiBefore
            /\ apiCalls = <<>>
            /\ apiStage = "done" =>
                    Len(apiResponses) = 1 /\ apiResponses[1].status = 401
       /\ apiReq.apiKey # UNDEFINED =>
            \A n \in 1..Len(apiCalls) :
                apiCalls[n].kind = "model" => apiCalls[n].credential = apiReq.apiKey

\* a request without the header has been answered 401 on the report route while the
\* limiter holds the count of an earlier caller
C11_Witness ==
    /\ apiReq.path = "/api/csv/report/contacts"
    /\ apiReq.apiKey = UNDEFINED
    /\ apiStage = "done"
    /\ apiResponses[1].status = 401
    /\ "sk-ant-a" \in DOMAIN requestCounts
    /\ requestCounts["sk-ant-a"].count = Num(2)

----------------------------------------------------------------------------
(* C12: empty report.  When the result of the query has no records (the records are
   missing or there are none), generateCsvReport returns success = false with its
   error text and the text of the query, the request has named and written no file,
   and the handler answers 404 with that result and streams nothing. *)
C12_EmptyReport ==
    \A r \in ReportIds :
        LET report == reports[r]
            failure == [success |-> FALSE,
                        error |-> "No records found for the specified query",
                        query |-> report.soql]
        IN  /\ report.queryResult # NoQueryResult =>
                    (report.found = "none"
                        <=> \/ "records" \notin DOMAIN report.queryResult
                            \/ Len(report.queryResult.records) = 0)
            /\ report.found = "none" =>
                    /\ report.stage \in {"notFound", "done", "lost"}
                    /\ report.stage = "notFound" => report.result = failure
                    /\ report.stage = "done" =>
                            report.status = 404 /\ report.json = failure
                    /\ report.filename = NULL
                    /\ \A filePath \in DOMAIN disk : disk[filePath].writer # r
                    /\ report.body = NoBody

\* the query generated from a description has found nothing and the handler has
\* answered
C12_Witness ==
    /\ reports["r1"].found = "none"
    /\ reports["r1"].stage = "done"
    /\ reports["r1"].soql = GeneratedSoql
    /\ reports["r1"].status = 404

----------------------------------------------------------------------------
(* C13: report filename uniqueness.  Any two calls of generateCsvReport that return
   success return different file names. *)
C13_AsClaimed ==
    \A r1 \in ReportIds : \A r2 \in ReportIds \ {r1} :
        (reports[r1].status = 200 /\ reports[r2].status = 200)
            => reports[r1].filename # reports[r2].filename

----------------------------------------------------------------------------
(* C14: report columns.  For every query result with records, the field list
   generateCsvReport returns is the key set of the first record without 'attributes',
   recordCount is the number of records, and the file holds one row per record, each
   with exactly those fields and the record's values for them: a key only later
   records have is not written. *)
C14_ReportColumns ==
    \A r \in ReportIds :
        LET report == reports[r]
            records == report.queryResult.records
            columns == DOMAIN records[1] \ {"attributes"}
            Written(rows) ==
                /\ Len(rows) = Len(records)
                /\ \A n \in 1..Len(rows) :
                        /\ DOMAIN rows[n] = columns
                        /\ \A field \in columns \cap DOMAIN records[n] :
                                rows[n][field] = records[n][field]
        IN  /\ report.stage = "writing" => Written(report.csvData)
            /\ report.stage = "streaming" =>
                    /\ report.result.success
                    /\ {report.result.fields[i] : i \in 1..Len(report.result.fields)}
                            = columns
                    /\ Len(report.result.fields) = Cardinality(columns)
                    /\ report.result.recordCount = Len(records)
                    /\ \A filePath \in DOMAIN disk :
                            disk[filePath].writer = r =>
                                /\ disk[filePath].headers = report.result.fields
                                /\ Written(disk[filePath].rows)

\* a report of two records is being streamed; only the second record has an Email
C14_Witness ==
    /\ reports["r1"].stage = "streaming"
    /\ Len(reports["r1"].queryResult.records) = 2
    /\ "Email" \notin DOMAIN reports["r1"].queryResult.records[1]
    /\ "Email" \in DOMAIN reports["r1"].queryResult.records[2]
    /\ TmpPath(reports["r1"].filename) \in DOMAIN disk

----------------------------------------------------------------------------
(* C15: the report file is transient.  Once a report request is over, whichever way
   it ended (the file streamed to the end, the response aborted, a stream error), no
   file written for it is left on disk. *)
C15_AsClaimed ==
    \A r \in ReportIds :
        reports[r].stage \in {"done", "lost"} =>
            \A filePath \in DOMAIN disk : disk[filePath].writer # r

----------------------------------------------------------------------------
(* C16: single shared CRM session.  Whatever the interleaving of the startup call and
   the requests: every login is started while there is no shared connection, at most
   one login ever succeeds, no login replaces a shared connection that is set, and
   every CRM operation runs on the shared connection. *)
C16_AsClaimed ==
    /\ \A n \in 1..Len(logins) : logins[n].shared = NoConnection
    /\ Len(established) <= 1
    /\ \A n \in 1..Len(established) : established[n].replaced = NoConnection
    /\ \A n \in 1..Len(used) : used[n].conn = connection

----------------------------------------------------------------------------
(* C17: handler validation and error translation.  A request that reaches its
   handler without one of the fields the handler requires is answered 400 and no CRM
   or model call (nor any other call of the handler) is started for it; when a call
   of the handler raises, the request is answered 500 with the message of that
   exception; a request gets no response while it is in progress and exactly one
   once it is over. *)
C17_HandlerValidation ==
    apiReq # NoRequest =>
        LET checks == Handler(apiReq.path).checks
            incomplete == \E i \in 1..Len(checks) : checks[i].anyOf \cap apiReq.body = {}
            handled == \E n \in 1..Len(apiTrace) : apiTrace[n] = "handler"
        IN  /\ Len(apiResponses) = (IF apiStage = "done" THEN 1 ELSE 0)
            /\ incomplete => apiCalls = <<>>
            /\ (incomplete /\ handled) =>
                    apiStage = "done" /\ apiResponses[1].status = 400
            /\ \A n \in 1..Len(apiCalls) :
                    apiCalls[n].outcome = "raised" =>
                        /\ apiStage = "done"
                        /\ apiResponses[1] = [status |-> 500, error |-> apiCalls[n].message]

\* the data enrichment handler has queried the record and asked the model, and its
\* update call has raised
C17_Witness ==
    /\ apiReq.path = "/api/integrated/enrich-data/Contact/003"
    /\ Len(apiCalls) = 4
    /\ apiCalls[4].op = "updateRecord"
    /\ apiCalls[4].outcome = "raised"
    /\ apiResponses[1].status = 500

----------------------------------------------------------------------------
(* C18: sequential row processing.  Within one import only the latest CRM call can be
   in flight; the calls of a row come after the Contact create of the row before it
   has completed or raised; and successfulRecords and errors follow the order of the
   rows: the k-th success is the k-th Contact create that succeeded, the k-th error
   the k-th Contact create that failed or raised, both taken in row order. *)
C18_SequentialRows ==
    LET IsContact(c) == c.op = "create" /\ c.object = "Contact"
        created == SelectSeq(calls, LAMBDA c : IsContact(c) /\ c.outcome = "ok")
        refused == SelectSeq(calls,
                        LAMBDA c : IsContact(c) /\ c.outcome \in {"failed", "raised"})
    IN  /\ \A n \in 1..Len(calls) : calls[n].outcome = "pending" => n = Len(calls)
        /\ \A n \in 1..Len(calls) :
                calls[n].row > 1 =>
                    \E m \in 1..(n - 1) :
                        /\ IsContact(calls[m])
                        /\ calls[m].row = calls[n].row - 1
                        /\ calls[m].outcome # "pending"
        /\ \A m \in 1..Len(calls) : \A n \in m..Len(calls) : calls[m].row <= calls[n].row
        /\ Len(successfulRecords) = Len(created)
        /\ \A k \in 1..Len(created) :
                /\ successfulRecords[k].id = created[k].result
                /\ successfulRecords[k].name = DisplayName(created[k].arg)
                /\ k > 1 => created[k - 1].row < created[k].row
        /\ Len(errors) = Len(refused)
        /\ \A k \in 1..Len(refused) :
                /\ errors[k].error = (IF refused[k].outcome = "raised"
                                      THEN TransportError ELSE Join(CreateErrors, ", "))
                /\ refused[k].outcome = "raised" => errors[k].record = contacts[refused[k].row]
                /\ k > 1 => refused[k - 1].row < refused[k].row

\* the Account lookup of the second row is in flight after the Contact create of the
\* first row was refused
C18_Witness ==
    /\ Len(calls) >= 2
    /\ calls[Len(calls)].row = 2
    /\ calls[Len(calls)].op = "query"
    /\ calls[Len(calls)].outcome = "pending"
    /\ Len(errors) = 1
    /\ calls[Len(calls) - 1].outcome = "failed"

----------------------------------------------------------------------------
(* C19: no automatic retry.  Within one import every row has at most one Account
   lookup, at most one Account create call and at most one Contact create call,
   whatever their outcomes; a call that raised or was refused is followed by no call
   with the same operation, object and argument for that row; and the message
   recorded for a Contact create that raised is the message of the transport
   failure. *)
C19_NoRetry ==
    /\ \A row \in 1..Len(contacts) :
            /\ Cardinality({n \in Lookups : calls[n].row = row}) <= 1
            /\ Cardinality({n \in AccountCreates : calls[n].row = row}) <= 1
            /\ Cardinality({n \in ContactCalls : calls[n].row = row}) <= 1
    /\ \A m \in 1..Len(calls) : \A n \in (m + 1)..Len(calls) :
            (calls[m].row = calls[n].row /\ calls[m].outcome \in {"raised", "failed"})
                => <<calls[n].op, calls[n].object>> # <<calls[m].op, calls[m].object>>
    /\ \A k \in 1..Len(errors) :
            LET refused == SelectSeq(calls, LAMBDA c :
                                /\ c.op = "create" /\ c.object = "Contact"
                                /\ c.outcome \in {"failed", "raised"})
            IN  (k <= Len(refused) /\ refused[k].outcome = "raised")
                    => errors[k].error = TransportError

\* the lookup of the first row found nothing, its Account create and its Contact
\* create both raised, and the loop has gone on to the second row
C19_Witness ==
    /\ Len(calls) >= 3
    /\ calls[1].op = "query" /\ calls[1].outcome = "ok"
    /\ calls[2].object = "Account" /\ calls[2].outcome = "raised"
    /\ calls[3].object = "Contact" /\ calls[3].outcome = "raised"
    /\ idx = 2
    /\ Len(contacts) = 2

----------------------------------------------------------------------------
(* C20: one Account per name within an import.  As claimed: at most one Account
   create succeeds per AccountName, and the Contacts of all rows that share an
   AccountName are submitted with the same AccountId. *)
C20_AsClaimed ==
    LET NameOf(n) == contacts[calls[n].row]["AccountName"]
        Named(n) == Truthy(contacts[calls[n].row], "AccountName")
        AccountIdOf(n) ==
            IF "AccountId" \in DOMAIN calls[n].arg THEN calls[n].arg["AccountId"] ELSE NULL
    IN  /\ \A m \in AccountCreates : \A n \in AccountCreates \ {m} :
                (calls[m].outcome = "ok" /\ calls[n].outcome = "ok")
                    => calls[m].arg["Name"] # calls[n].arg["Name"]
        /\ \A m \in ContactCalls : \A n \in ContactCalls :
                (Named(m) /\ Named(n) /\ NameOf(m) = NameOf(n))
                    => AccountIdOf(m) = AccountIdOf(n)

(* C20, amended: at most one Account create succeeds per AccountName, and the
   Contacts of the rows that share an AccountName and are submitted with an AccountId
   all carry the same one, which is the id of the Account this import created if it
   created one; a row whose lookup or Account create failed is submitted without
   AccountId. *)
C20_OneAccountPerName ==
    LET NameOf(n) == contacts[calls[n].row]["AccountName"]
        Named(n) == Truthy(contacts[calls[n].row], "AccountName")
    IN  /\ \A m \in AccountCreates : \A n \in AccountCreates \ {m} :
                (calls[m].outcome = "ok" /\ calls[n].outcome = "ok")
                    => calls[m].arg["Name"] # calls[n].arg["Name"]
        /\ \A m \in ContactCalls : \A n \in ContactCalls :
                (/\ Named(m) /\ Named(n) /\ NameOf(m) = NameOf(n)
                 /\ "AccountId" \in DOMAIN calls[m].arg
                 /\ "AccountId" \in DOMAIN calls[n].arg)
                    => calls[m].arg["AccountId"] = calls[n].arg["AccountId"]
        /\ \A m \in AccountCreates : \A n \in ContactCalls :
                (/\ calls[m].outcome = "ok"
                 /\ Named(n) /\ NameOf(n) = calls[m].arg["Name"]
                 /\ "AccountId" \in DOMAIN calls[n].arg)
                    => calls[n].arg["AccountId"] = calls[m].result
        /\ \A n \in ContactCalls :
                (Named(n) /\ \E m \in 1..(n - 1) :
                    /\ calls[m].row = calls[n].row
                    /\ calls[m].outcome \in {"raised", "failed"})
                    => "AccountId" \notin DOMAIN calls[n].arg

\* both rows name Acme, which the CRM did not hold: the first row created the
\* Account, the second row found it, and both Contacts carry its id
C20_Witness ==
    /\ Len(contacts) = 2
    /\ Cardinality(AccountCreates) = 1
    /\ Cardinality(ContactCalls) = 2
    /\ \A n \in ContactCalls :
            /\ "AccountId" \in DOMAIN calls[n].arg
            /\ calls[n].arg["AccountId"] = "3"

----------------------------------------------------------------------------
(* C21, as claimed: rate-limiter frame conditions.  In every step of the limiter, a
   request that is answered 429 leaves the count and resetTime of its caller key as
   they were, and a request of one caller key leaves the count and resetTime that
   every other key reads as they were. *)
C21_AsClaimed ==
    [][\A key \in CallerKeys :
          LET Entry(obj) == IF key \in DOMAIN obj THEN obj[key] ELSE NoWindow
          IN  /\ (reqWindow'[key] # reqWindow[key] /\ lastResponse'[key].status = 429)
                    => Entry(requestCounts') = Entry(requestCounts)
              /\ (served' = served + 1 /\ reqWindow'[key] = reqWindow[key])
                    => Entry(requestCounts') = Entry(requestCounts)]_vars

====
